---------------------------- MODULE Spec2Model ----------------------------
(***************************************************************************)
(* Phrase Bridge: the language registry (language_codes.py), the           *)
(* translation service (translator.py) and the request lifecycle of the    *)
(* window (gui.py), as a state machine.                                    *)
(*                                                                         *)
(* Representation of Python strings.                                       *)
(*  - A language name or a string typed into a combobox is a string;       *)
(*    Spell gives its characters, which str.lower(), `in` and the order    *)
(*    of sorted() are computed on.                                         *)
(*  - A text to translate is run-length encoded: a tuple of runs           *)
(*    [ch, n] (n copies of ch), adjacent runs having different ch, so      *)
(*    that len() and str.strip() are computed on texts of 5000 characters. *)
(*  - An exception message is a tuple of fragments; lower() maps each      *)
(*    fragment, `needle in msg` holds when a fragment of msg is needle.    *)
(*  - A language code is a TLA+ string: the program only compares codes.   *)
(*  - Optional[str] is a tuple of length 0 (None) or 1 (the value).        *)
(***************************************************************************)
EXTENDS Integers, Sequences, FiniteSets, TLC

-----------------------------------------------------------------------------
(* The characters of the strings the model holds: list(s) *)
Spell ==
    ("Auto Detect" :> <<"A","u","t","o"," ","D","e","t","e","c","t">>) @@
    ("English" :> <<"E","n","g","l","i","s","h">>) @@
    ("Spanish" :> <<"S","p","a","n","i","s","h">>) @@
    ("French" :> <<"F","r","e","n","c","h">>) @@
    ("German" :> <<"G","e","r","m","a","n">>) @@
    ("Italian" :> <<"I","t","a","l","i","a","n">>) @@
    ("Portuguese" :> <<"P","o","r","t","u","g","u","e","s","e">>) @@
    ("Russian" :> <<"R","u","s","s","i","a","n">>) @@
    ("Chinese (Simplified)" :> <<"C","h","i","n","e","s","e"," ","(","S","i","m","p","l","i","f","i","e","d",")">>) @@
    ("Chinese (Traditional)" :> <<"C","h","i","n","e","s","e"," ","(","T","r","a","d","i","t","i","o","n","a","l",")">>) @@
    ("Japanese" :> <<"J","a","p","a","n","e","s","e">>) @@
    ("Korean" :> <<"K","o","r","e","a","n">>) @@
    ("Arabic" :> <<"A","r","a","b","i","c">>) @@
    ("Hindi" :> <<"H","i","n","d","i">>) @@
    ("Dutch" :> <<"D","u","t","c","h">>) @@
    ("Polish" :> <<"P","o","l","i","s","h">>) @@
    ("Turkish" :> <<"T","u","r","k","i","s","h">>) @@
    ("Swedish" :> <<"S","w","e","d","i","s","h">>) @@
    ("Norwegian" :> <<"N","o","r","w","e","g","i","a","n">>) @@
    ("Danish" :> <<"D","a","n","i","s","h">>) @@
    ("Finnish" :> <<"F","i","n","n","i","s","h">>) @@
    ("Greek" :> <<"G","r","e","e","k">>) @@
    ("Hebrew" :> <<"H","e","b","r","e","w">>) @@
    ("Thai" :> <<"T","h","a","i">>) @@
    ("Vietnamese" :> <<"V","i","e","t","n","a","m","e","s","e">>) @@
    ("Indonesian" :> <<"I","n","d","o","n","e","s","i","a","n">>) @@
    ("Malay" :> <<"M","a","l","a","y">>) @@
    ("Czech" :> <<"C","z","e","c","h">>) @@
    ("Hungarian" :> <<"H","u","n","g","a","r","i","a","n">>) @@
    ("Romanian" :> <<"R","o","m","a","n","i","a","n">>) @@
    ("Bulgarian" :> <<"B","u","l","g","a","r","i","a","n">>) @@
    ("Croatian" :> <<"C","r","o","a","t","i","a","n">>) @@
    ("Slovak" :> <<"S","l","o","v","a","k">>) @@
    ("Slovenian" :> <<"S","l","o","v","e","n","i","a","n">>) @@
    ("Estonian" :> <<"E","s","t","o","n","i","a","n">>) @@
    ("Latvian" :> <<"L","a","t","v","i","a","n">>) @@
    ("Lithuanian" :> <<"L","i","t","h","u","a","n","i","a","n">>) @@
    ("Ukrainian" :> <<"U","k","r","a","i","n","i","a","n">>) @@
    ("Bengali" :> <<"B","e","n","g","a","l","i">>) @@
    ("Tamil" :> <<"T","a","m","i","l">>) @@
    ("Telugu" :> <<"T","e","l","u","g","u">>) @@
    ("Gujarati" :> <<"G","u","j","a","r","a","t","i">>) @@
    ("Marathi" :> <<"M","a","r","a","t","h","i">>) @@
    ("Punjabi" :> <<"P","u","n","j","a","b","i">>) @@
    ("Urdu" :> <<"U","r","d","u">>) @@
    ("Persian" :> <<"P","e","r","s","i","a","n">>) @@
    ("Swahili" :> <<"S","w","a","h","i","l","i">>) @@
    ("Afrikaans" :> <<"A","f","r","i","k","a","a","n","s">>) @@
    ("Albanian" :> <<"A","l","b","a","n","i","a","n">>) @@
    ("Armenian" :> <<"A","r","m","e","n","i","a","n">>) @@
    ("Azerbaijani" :> <<"A","z","e","r","b","a","i","j","a","n","i">>) @@
    ("Basque" :> <<"B","a","s","q","u","e">>) @@
    ("Belarusian" :> <<"B","e","l","a","r","u","s","i","a","n">>) @@
    ("Bosnian" :> <<"B","o","s","n","i","a","n">>) @@
    ("Catalan" :> <<"C","a","t","a","l","a","n">>) @@
    ("Filipino" :> <<"F","i","l","i","p","i","n","o">>) @@
    ("Galician" :> <<"G","a","l","i","c","i","a","n">>) @@
    ("Georgian" :> <<"G","e","o","r","g","i","a","n">>) @@
    ("Icelandic" :> <<"I","c","e","l","a","n","d","i","c">>) @@
    ("Irish" :> <<"I","r","i","s","h">>) @@
    ("Kazakh" :> <<"K","a","z","a","k","h">>) @@
    ("Kurdish" :> <<"K","u","r","d","i","s","h">>) @@
    ("Kyrgyz" :> <<"K","y","r","g","y","z">>) @@
    ("Latin" :> <<"L","a","t","i","n">>) @@
    ("Luxembourgish" :> <<"L","u","x","e","m","b","o","u","r","g","i","s","h">>) @@
    ("Macedonian" :> <<"M","a","c","e","d","o","n","i","a","n">>) @@
    ("Maltese" :> <<"M","a","l","t","e","s","e">>) @@
    ("Mongolian" :> <<"M","o","n","g","o","l","i","a","n">>) @@
    ("Nepali" :> <<"N","e","p","a","l","i">>) @@
    ("Pashto" :> <<"P","a","s","h","t","o">>) @@
    ("Serbian" :> <<"S","e","r","b","i","a","n">>) @@
    ("Sinhala" :> <<"S","i","n","h","a","l","a">>) @@
    ("Tajik" :> <<"T","a","j","i","k">>) @@
    ("Uzbek" :> <<"U","z","b","e","k">>) @@
    ("Welsh" :> <<"W","e","l","s","h">>) @@
    ("Yiddish" :> <<"Y","i","d","d","i","s","h">>) @@
    ("" :> <<>>) @@
    ("auto detect" :> <<"a","u","t","o"," ","d","e","t","e","c","t">>) @@
    ("english" :> <<"e","n","g","l","i","s","h">>)

(* Characters, in code point order. *)
Chars ==
    << " ", "(", ")",
       "A","B","C","D","E","F","G","H","I","J","K","L","M",
       "N","O","P","Q","R","S","T","U","V","W","X","Y","Z",
       "a","b","c","d","e","f","g","h","i","j","k","l","m",
       "n","o","p","q","r","s","t","u","v","w","x","y","z" >>

Ord(c) == CHOOSE i \in 1..Len(Chars) : Chars[i] = c

OrdTable == [c \in {Chars[i] : i \in 1..Len(Chars)} |-> Ord(c)]

FirstUpper == Ord("A")

AlphabetSize == Ord("a") - Ord("A")

(* str.lower() on one character *)
LowerChar(c) ==
    IF Ord(c) >= FirstUpper /\ Ord(c) < FirstUpper + AlphabetSize
    THEN Chars[Ord(c) + AlphabetSize]
    ELSE c

LowerTable == [c \in {Chars[i] : i \in 1..Len(Chars)} |-> LowerChar(c)]

(* The characters of s.lower(), for each string the model holds *)
LowerSpell == [s \in DOMAIN Spell |-> [i \in 1..Len(Spell[s]) |-> LowerTable[Spell[s][i]]]]

(* The characters of s.lower() *)
Lower(s) == LowerSpell[s]

(* `sub in s` on the characters of two strings *)
Contains(s, sub) ==
    \E i \in 1..(Len(s) - Len(sub) + 1) : SubSeq(s, i, i + Len(sub) - 1) = sub

(* s < t on the characters of two strings, the order sorted() uses *)
StrLess(s, t) ==
    \E i \in 1..(Len(t)) :
        /\ i <= Len(s) + 1
        /\ SubSeq(s, 1, i - 1) = SubSeq(t, 1, i - 1)
        /\ \/ i = Len(s) + 1
           \/ i <= Len(s) /\ OrdTable[s[i]] < OrdTable[t[i]]

(* sorted(list of strings): the element at position j of the list goes to *)
(* the position that counts the elements before it in the order, equal    *)
(* elements keeping their order.                                          *)
Sorted(list) ==
    LET Before(k, j) ==
            \/ StrLess(Spell[list[k]], Spell[list[j]])
            \/ list[k] = list[j] /\ k < j
        position == [j \in 1..Len(list) |->
                        Cardinality({k \in 1..Len(list) : Before(k, j)}) + 1]
    IN  [p \in 1..Len(list) |-> list[CHOOSE j \in 1..Len(list) : position[j] = p]]

Range(f) == {f[i] : i \in DOMAIN f}

-----------------------------------------------------------------------------
(* language_codes.py *)

LANGUAGES ==
    <<
       [name |-> "Auto Detect", code |-> "auto"],
       [name |-> "English", code |-> "en"],
       [name |-> "Spanish", code |-> "es"],
       [name |-> "French", code |-> "fr"],
       [name |-> "German", code |-> "de"],
       [name |-> "Italian", code |-> "it"],
       [name |-> "Portuguese", code |-> "pt"],
       [name |-> "Russian", code |-> "ru"],
       [name |-> "Chinese (Simplified)", code |-> "zh-cn"],
       [name |-> "Chinese (Traditional)", code |-> "zh-tw"],
       [name |-> "Japanese", code |-> "ja"],
       [name |-> "Korean", code |-> "ko"],
       [name |-> "Arabic", code |-> "ar"],
       [name |-> "Hindi", code |-> "hi"],
       [name |-> "Dutch", code |-> "nl"],
       [name |-> "Polish", code |-> "pl"],
       [name |-> "Turkish", code |-> "tr"],
       [name |-> "Swedish", code |-> "sv"],
       [name |-> "Norwegian", code |-> "no"],
       [name |-> "Danish", code |-> "da"],
       [name |-> "Finnish", code |-> "fi"],
       [name |-> "Greek", code |-> "el"],
       [name |-> "Hebrew", code |-> "he"],
       [name |-> "Thai", code |-> "th"],
       [name |-> "Vietnamese", code |-> "vi"],
       [name |-> "Indonesian", code |-> "id"],
       [name |-> "Malay", code |-> "ms"],
       [name |-> "Czech", code |-> "cs"],
       [name |-> "Hungarian", code |-> "hu"],
       [name |-> "Romanian", code |-> "ro"],
       [name |-> "Bulgarian", code |-> "bg"],
       [name |-> "Croatian", code |-> "hr"],
       [name |-> "Slovak", code |-> "sk"],
       [name |-> "Slovenian", code |-> "sl"],
       [name |-> "Estonian", code |-> "et"],
       [name |-> "Latvian", code |-> "lv"],
       [name |-> "Lithuanian", code |-> "lt"],
       [name |-> "Ukrainian", code |-> "uk"],
       [name |-> "Bengali", code |-> "bn"],
       [name |-> "Tamil", code |-> "ta"],
       [name |-> "Telugu", code |-> "te"],
       [name |-> "Gujarati", code |-> "gu"],
       [name |-> "Marathi", code |-> "mr"],
       [name |-> "Punjabi", code |-> "pa"],
       [name |-> "Urdu", code |-> "ur"],
       [name |-> "Persian", code |-> "fa"],
       [name |-> "Swahili", code |-> "sw"],
       [name |-> "Afrikaans", code |-> "af"],
       [name |-> "Albanian", code |-> "sq"],
       [name |-> "Armenian", code |-> "hy"],
       [name |-> "Azerbaijani", code |-> "az"],
       [name |-> "Basque", code |-> "eu"],
       [name |-> "Belarusian", code |-> "be"],
       [name |-> "Bosnian", code |-> "bs"],
       [name |-> "Catalan", code |-> "ca"],
       [name |-> "Filipino", code |-> "tl"],
       [name |-> "Galician", code |-> "gl"],
       [name |-> "Georgian", code |-> "ka"],
       [name |-> "Icelandic", code |-> "is"],
       [name |-> "Irish", code |-> "ga"],
       [name |-> "Kazakh", code |-> "kk"],
       [name |-> "Kurdish", code |-> "ku"],
       [name |-> "Kyrgyz", code |-> "ky"],
       [name |-> "Latin", code |-> "la"],
       [name |-> "Luxembourgish", code |-> "lb"],
       [name |-> "Macedonian", code |-> "mk"],
       [name |-> "Maltese", code |-> "mt"],
       [name |-> "Mongolian", code |-> "mn"],
       [name |-> "Nepali", code |-> "ne"],
       [name |-> "Pashto", code |-> "ps"],
       [name |-> "Serbian", code |-> "sr"],
       [name |-> "Sinhala", code |-> "si"],
       [name |-> "Tajik", code |-> "tg"],
       [name |-> "Uzbek", code |-> "uz"],
       [name |-> "Welsh", code |-> "cy"],
       [name |-> "Yiddish", code |-> "yi"]
    >>

(* LANGUAGES.keys(), in declaration order *)
LanguageKeys == [i \in 1..Len(LANGUAGES) |-> LANGUAGES[i].name]

RegistryCodes == {LANGUAGES[i].code : i \in 1..Len(LANGUAGES)}

get_language_names == Sorted(LanguageKeys)

(* get_language_code matching names whatever their case *)
get_language_code_IgnoreCase(language_name) ==
    IF \E i \in 1..Len(LANGUAGES) : Lower(LANGUAGES[i].name) = Lower(language_name)
    THEN LANGUAGES[CHOOSE i \in 1..Len(LANGUAGES) :
                       Lower(LANGUAGES[i].name) = Lower(language_name)].code
    ELSE "en"

get_language_code(language_name) ==
    IF \E i \in 1..Len(LANGUAGES) : LANGUAGES[i].name = language_name
    THEN LANGUAGES[CHOOSE i \in 1..Len(LANGUAGES) : LANGUAGES[i].name = language_name].code
    ELSE "en"

(* get_language_name with a loop that starts at the second entry *)
get_language_name_SkipsFirst(language_code) ==
    IF \E i \in 2..Len(LANGUAGES) : LANGUAGES[i].code = language_code
    THEN LET first == CHOOSE i \in 2..Len(LANGUAGES) :
                         /\ LANGUAGES[i].code = language_code
                         /\ \A j \in 2..(i - 1) : LANGUAGES[j].code # language_code
         IN  LANGUAGES[first].name
    ELSE "English"

(* get_language_name without the loop *)
get_language_name_NoScan(language_code) == "English"

get_language_name(language_code) ==
    IF \E i \in 1..Len(LANGUAGES) : LANGUAGES[i].code = language_code
    THEN LET first == CHOOSE i \in 1..Len(LANGUAGES) :
                         /\ LANGUAGES[i].code = language_code
                         /\ \A j \in 1..(i - 1) : LANGUAGES[j].code # language_code
         IN  LANGUAGES[first].name
    ELSE "English"

(* A caller of the lookups: each lookup after the first is given the       *)
(* result of the one before.                                               *)
VARIABLE lookups

reg_vars == <<lookups>>

MaxLookups == 3

RegistryInit == lookups = <<>>

(* The lookup has an argument of the caller's, or the result before it *)
Chained(arg) ==
    /\ Len(lookups) < MaxLookups
    /\ lookups # <<>> => lookups[Len(lookups)].result = arg

LookupCode(language_name) ==
    /\ Chained(language_name)
    /\ lookups' = Append(lookups, [fn |-> "get_language_code", arg |-> language_name,
                                   result |-> get_language_code(language_name)])

LookupName(language_code) ==
    /\ Chained(language_code)
    /\ lookups' = Append(lookups, [fn |-> "get_language_name", arg |-> language_code,
                                   result |-> get_language_name(language_code)])

(* The caller starts again. *)
ForgetLookups ==
    /\ lookups # <<>>
    /\ lookups' = <<>>

-----------------------------------------------------------------------------
(* Texts *)

MaxRuns == 2

MAX_CHARS == 5000

RunChars == {" ", "a"}

RunLens == {1, MAX_CHARS}

Run(c, k) == [ch |-> c, n |-> k]

Runs == [ch : RunChars, n : RunLens]

(* The texts a caller may pass: at most MaxRuns runs, no two adjacent runs *)
(* of the same character.                                                  *)
Texts ==
    UNION {{t \in [1..l -> Runs] : \A i \in 1..(l - 1) : t[i].ch # t[i + 1].ch} :
           l \in 0..MaxRuns}

IsSpace(c) == c \in {" ", "\n", "\t"}

(* len(text) *)
RECURSIVE TextLen(_)
TextLen(t) == IF t = <<>> THEN 0 ELSE Head(t).n + TextLen(Tail(t))

RECURSIVE LStrip(_)
LStrip(t) ==
    IF t = <<>> THEN <<>>
    ELSE IF IsSpace(Head(t).ch) THEN LStrip(Tail(t))
    ELSE t

RECURSIVE RStrip(_)
RStrip(t) ==
    IF t = <<>> THEN <<>>
    ELSE IF IsSpace(t[Len(t)].ch) THEN RStrip(SubSeq(t, 1, Len(t) - 1))
    ELSE t

(* text.strip() *)
Strip(t) == RStrip(LStrip(t))

(* text + c *)
AppendChar(t, c) ==
    IF t # <<>> /\ t[Len(t)].ch = c
    THEN [t EXCEPT ![Len(t)].n = @ + 1]
    ELSE Append(t, Run(c, 1))

None == <<>>

Some(x) == <<x>>

-----------------------------------------------------------------------------
(* Exceptions the backend may raise *)

MaxMsgLen == 2

Fragments ==
    {"429", "Too Many Requests", "403", "Forbidden", "Service Unavailable", "boom"}

(* str.lower() on a fragment of a message *)
LowerFragment(f) ==
    CASE f = "Too Many Requests" -> "too many requests"
      [] f = "Forbidden" -> "forbidden"
      [] f = "Service Unavailable" -> "service unavailable"
      [] OTHER -> f

(* str(e).lower() *)
LowerMsg(msg) == [i \in 1..Len(msg) |-> LowerFragment(msg[i])]

(* needle in msg *)
MsgContains(msg, needle) == \E i \in 1..Len(msg) : msg[i] = needle

Messages == UNION {[1..l -> Fragments] : l \in 0..MaxMsgLen}

ExceptionTypes ==
    {"Exception", "ConnectionError", "Timeout", "ConnectTimeout", "HTTPError"}

(* The base classes of the exception types of requests.exceptions *)
Bases(type) ==
    CASE type = "ConnectionError" -> {"ConnectionError", "Exception"}
      [] type = "Timeout" -> {"Timeout", "Exception"}
      [] type = "ConnectTimeout" ->
             {"ConnectTimeout", "ConnectionError", "Timeout", "Exception"}
      [] type = "HTTPError" -> {"HTTPError", "Exception"}
      [] OTHER -> {"Exception"}

IsInstance(e, class) == class \in Bases(e.type)

Exceptions == [type : ExceptionTypes, msg : Messages]

(* result.text of a backend result that is None *)
AttributeError ==
    [type |-> "Exception", msg |-> <<"'NoneType' object has no attribute 'text'">>]

-----------------------------------------------------------------------------
(* translator.py: TranslationService.translate_text *)

(* BeforeBackend with the same-language check moved ahead of the validation *)
BeforeBackend_ShortCircuitFirst(text, source_lang, target_lang, maxc) ==
    IF source_lang = target_lang /\ source_lang # "auto"
    THEN [pc |-> "returned", result |-> <<Some(text), None>>]
    ELSE IF text = <<>> \/ Strip(text) = <<>>
    THEN [pc |-> "returned",
          result |-> <<None, Some(<<"Please enter text to translate">>)>>]
    ELSE IF TextLen(text) > maxc
    THEN [pc |-> "returned",
          result |-> <<None, Some(<<"Text too long. Maximum ", ToString(maxc),
                                    " characters allowed.">>)>>]
    ELSE [pc |-> "backend", result |-> <<None, None>>]

(* BeforeBackend without the `source_lang != "auto"` test *)
BeforeBackend_AutoShortCircuit(text, source_lang, target_lang, maxc) ==
    IF text = <<>> \/ Strip(text) = <<>>
    THEN [pc |-> "returned",
          result |-> <<None, Some(<<"Please enter text to translate">>)>>]
    ELSE IF TextLen(text) > maxc
    THEN [pc |-> "returned",
          result |-> <<None, Some(<<"Text too long. Maximum ", ToString(maxc),
                                    " characters allowed.">>)>>]
    ELSE IF source_lang = target_lang
    THEN [pc |-> "returned", result |-> <<Some(text), None>>]
    ELSE [pc |-> "backend", result |-> <<None, None>>]

(* Lines 33-42: what translate_text does before the backend call.  pc is   *)
(* "returned" with the tuple it returns, or "backend" when it goes on to   *)
(* self.translator.translate.                                              *)
BeforeBackend(text, source_lang, target_lang, maxc) ==
    IF text = <<>> \/ Strip(text) = <<>>
    THEN [pc |-> "returned",
          result |-> <<None, Some(<<"Please enter text to translate">>)>>]
    ELSE IF TextLen(text) > maxc
    THEN [pc |-> "returned",
          result |-> <<None, Some(<<"Text too long. Maximum ", ToString(maxc),
                                    " characters allowed.">>)>>]
    ELSE IF source_lang = target_lang /\ source_lang # "auto"
    THEN [pc |-> "returned", result |-> <<Some(text), None>>]
    ELSE [pc |-> "backend", result |-> <<None, None>>]

(* ClassifyMessage matching str(e) instead of str(e).lower() *)
ClassifyMessage_CaseSensitive(e) ==
    LET error_msg == e.msg
    IN  IF MsgContains(error_msg, "429") \/ MsgContains(error_msg, "too many requests")
        THEN <<"Rate limit exceeded: Please wait a moment and try again">>
        ELSE IF MsgContains(error_msg, "403") \/ MsgContains(error_msg, "forbidden")
        THEN <<"Translation service access denied: Please check your connection">>
        ELSE IF MsgContains(error_msg, "service unavailable")
        THEN <<"Translation service temporarily unavailable">>
        ELSE <<"Translation failed: ">> \o e.msg

(* ClassifyMessage with the 403 rule tried before the 429 rule *)
ClassifyMessage_ForbiddenFirst(e) ==
    LET error_msg == LowerMsg(e.msg)
    IN  IF MsgContains(error_msg, "403") \/ MsgContains(error_msg, "forbidden")
        THEN <<"Translation service access denied: Please check your connection">>
        ELSE IF MsgContains(error_msg, "429") \/ MsgContains(error_msg, "too many requests")
        THEN <<"Rate limit exceeded: Please wait a moment and try again">>
        ELSE IF MsgContains(error_msg, "service unavailable")
        THEN <<"Translation service temporarily unavailable">>
        ELSE <<"Translation failed: ">> \o e.msg

(* Lines 60-69: the handler of `except Exception as e` *)
ClassifyMessage(e) ==
    LET error_msg == LowerMsg(e.msg)
    IN  IF MsgContains(error_msg, "429") \/ MsgContains(error_msg, "too many requests")
        THEN <<"Rate limit exceeded: Please wait a moment and try again">>
        ELSE IF MsgContains(error_msg, "403") \/ MsgContains(error_msg, "forbidden")
        THEN <<"Translation service access denied: Please check your connection">>
        ELSE IF MsgContains(error_msg, "service unavailable")
        THEN <<"Translation service temporarily unavailable">>
        ELSE <<"Translation failed: ">> \o e.msg

(* ExceptClauses with `except Timeout` ahead of `except ConnectionError` *)
ExceptClauses_TimeoutFirst(e) ==
    IF IsInstance(e, "Timeout")
    THEN [pc |-> "returned",
          result |-> <<None, Some(<<"Translation timeout: Please try again">>)>>]
    ELSE IF IsInstance(e, "ConnectionError")
    THEN [pc |-> "returned",
          result |-> <<None, Some(<<"Network error: Please check your internet connection">>)>>]
    ELSE IF IsInstance(e, "HTTPError")
    THEN [pc |-> "returned",
          result |-> <<None, Some(<<"Translation service error: ">> \o e.msg)>>]
    ELSE IF IsInstance(e, "Exception")
    THEN [pc |-> "returned", result |-> <<None, Some(ClassifyMessage(e))>>]
    ELSE [pc |-> "raised", result |-> <<None, None>>]

(* ExceptClauses with the call made again after a timeout *)
ExceptClauses_RetryTimeout(e) ==
    IF IsInstance(e, "Timeout") /\ ~IsInstance(e, "ConnectionError")
    THEN [pc |-> "backend", result |-> <<None, None>>]
    ELSE IF IsInstance(e, "ConnectionError")
    THEN [pc |-> "returned",
          result |-> <<None, Some(<<"Network error: Please check your internet connection">>)>>]
    ELSE IF IsInstance(e, "HTTPError")
    THEN [pc |-> "returned",
          result |-> <<None, Some(<<"Translation service error: ">> \o e.msg)>>]
    ELSE [pc |-> "returned", result |-> <<None, Some(ClassifyMessage(e))>>]

(* ExceptClauses without the final `except Exception` *)
ExceptClauses_NoCatchAll(e) ==
    IF IsInstance(e, "ConnectionError")
    THEN [pc |-> "returned",
          result |-> <<None, Some(<<"Network error: Please check your internet connection">>)>>]
    ELSE IF IsInstance(e, "Timeout")
    THEN [pc |-> "returned",
          result |-> <<None, Some(<<"Translation timeout: Please try again">>)>>]
    ELSE IF IsInstance(e, "HTTPError")
    THEN [pc |-> "returned",
          result |-> <<None, Some(<<"Translation service error: ">> \o e.msg)>>]
    ELSE [pc |-> "raised", result |-> <<None, None>>]

(* Lines 54-69: the except clauses, tried in order *)
ExceptClauses(e) ==
    IF IsInstance(e, "ConnectionError")
    THEN [pc |-> "returned",
          result |-> <<None, Some(<<"Network error: Please check your internet connection">>)>>]
    ELSE IF IsInstance(e, "Timeout")
    THEN [pc |-> "returned",
          result |-> <<None, Some(<<"Translation timeout: Please try again">>)>>]
    ELSE IF IsInstance(e, "HTTPError")
    THEN [pc |-> "returned",
          result |-> <<None, Some(<<"Translation service error: ">> \o e.msg)>>]
    ELSE IF IsInstance(e, "Exception")
    THEN [pc |-> "returned", result |-> <<None, Some(ClassifyMessage(e))>>]
    ELSE [pc |-> "raised", result |-> <<None, None>>]

(* Line 52: return result.text, None *)
ReturnTranslated(text) == [pc |-> "returned", result |-> <<Some(text), None>>]

(* FieldsAfterCall with the limit used as a quota that each call draws on *)
FieldsAfterCall_Quota(maxc, text) == maxc - TextLen(text)

(* What a call leaves in self.max_chars: no method assigns to it *)
FieldsAfterCall(maxc, text) == maxc

-----------------------------------------------------------------------------
(* translator.py: TranslationService.detect_language *)

(* detection.lang of a backend detection that is None *)
DetectAttributeError ==
    [type |-> "Exception", msg |-> <<"'NoneType' object has no attribute 'lang'">>]

(* DetectBefore with `not text` only: whitespace goes to the backend *)
DetectBefore_NoStrip(text) ==
    IF text = <<>>
    THEN [pc |-> "returned",
          result |-> <<None, Some(<<"No text provided for language detection">>)>>]
    ELSE [pc |-> "backend", result |-> <<None, None>>]

(* Lines 82-83: what detect_language does before self.translator.detect *)
DetectBefore(text) ==
    IF text = <<>> \/ Strip(text) = <<>>
    THEN [pc |-> "returned",
          result |-> <<None, Some(<<"No text provided for language detection">>)>>]
    ELSE [pc |-> "backend", result |-> <<None, None>>]

(* Line 86: return detection.lang, None *)
DetectReturns(lang) == [pc |-> "returned", result |-> <<Some(lang), None>>]

(* Lines 88-89: except Exception as e *)
DetectExcept(e) ==
    IF IsInstance(e, "Exception")
    THEN [pc |-> "returned",
          result |-> <<None, Some(<<"Language detection failed: ">> \o e.msg)>>]
    ELSE [pc |-> "raised", result |-> <<None, None>>]

-----------------------------------------------------------------------------
(* translator.py: TranslationService.is_service_available *)

(* The arguments of the call of line 109 *)
CanaryArgs == [text |-> <<Run("t", 1), Run("e", 1), Run("s", 1), Run("t", 1)>>,
               source_lang |-> "en", target_lang |-> "es"]

(* Line 110: return test_result is not None *)
AvailableReturns(test_result) == [pc |-> "returned", result |-> test_result # None]

(* AvailableExcept catching the exceptions of requests only *)
AvailableExcept_RequestsOnly(e) ==
    IF \/ IsInstance(e, "ConnectionError")
       \/ IsInstance(e, "Timeout")
       \/ IsInstance(e, "HTTPError")
    THEN [pc |-> "returned", result |-> FALSE]
    ELSE [pc |-> "raised", result |-> FALSE]

(* Lines 111-112: the bare except, which catches whatever is raised *)
AvailableExcept(e) == [pc |-> "returned", result |-> FALSE]

-----------------------------------------------------------------------------
(* State *)

VARIABLES
    translator,       \* TranslationService.translator, the backend client handle
    max_chars,        \* TranslationService.max_chars
    svc_pc,           \* where the translate_text invocation in progress is
    svc_args,         \* its arguments
    backend_calls,    \* calls of self.translator.translate it has made
    svc_exc,          \* the exception its backend call raised, if any
    svc_result,       \* the tuple it returned
    calls             \* the invocations of callers that use the service concurrently

svc_vars ==
    <<translator, max_chars, svc_pc, svc_args, backend_calls, svc_exc, svc_result, calls>>

(* The fields of the service, and the invocations of concurrent callers *)
shared_vars == <<translator, max_chars, calls>>

(* The invocation in progress of a caller that makes one call after another *)
seq_vars == <<svc_pc, svc_args, backend_calls, svc_exc, svc_result>>

Codes == {"auto", "en", "es"}

NoArgs == [text |-> <<>>, source_lang |-> "", target_lang |-> ""]

MaxCalls == 2

CallIds == 1..MaxCalls

(* What the backend has answered to a call: nothing yet ("none"), a result  *)
(* object holding `value` ("result"), None ("null"), or the exception exc.   *)
NoAnswer == [answer |-> "none", value |-> <<>>, exc |-> None]

IdleCall ==
    [op |-> "none", pc |-> "idle", args |-> NoArgs, backend_calls |-> 0,
     response |-> NoAnswer, result |-> <<None, None>>]

(* TranslationService.__init__, and no invocation in progress *)
ServiceInit ==
    /\ translator = "Translator()"
    /\ calls = [c \in CallIds |-> IdleCall]
    /\ max_chars = MAX_CHARS
    /\ svc_pc = "idle"
    /\ svc_args = NoArgs
    /\ backend_calls = 0
    /\ svc_exc = None
    /\ svc_result = <<None, None>>

(* translate_text(text, source_lang, target_lang) up to its return or to   *)
(* the call of the backend, which it is suspended in.                      *)
TranslateTextCall(text, source_lang, target_lang) ==
    /\ svc_pc = "idle"
    /\ LET out == BeforeBackend(text, source_lang, target_lang, max_chars)
       IN  /\ svc_pc' = out.pc
           /\ svc_result' = out.result
           /\ backend_calls' = IF out.pc = "backend" THEN 1 ELSE 0
    /\ svc_args' = [text |-> text, source_lang |-> source_lang,
                    target_lang |-> target_lang]
    /\ svc_exc' = None
    /\ UNCHANGED shared_vars

(* The backend call returns a result whose text is `translated`. *)
BackendReturns(translated) ==
    /\ svc_pc = "backend"
    /\ LET out == ReturnTranslated(translated)
       IN  /\ svc_pc' = out.pc
           /\ svc_result' = out.result
    /\ UNCHANGED <<shared_vars, svc_args, backend_calls, svc_exc>>

(* The backend call raises e, or returns None so that result.text raises. *)
BackendRaises(e) ==
    /\ svc_pc = "backend"
    /\ LET out == ExceptClauses(e)
       IN  /\ svc_pc' = out.pc
           /\ svc_result' = out.result
           /\ backend_calls' = IF out.pc = "backend" THEN backend_calls + 1
                                                      ELSE backend_calls
    /\ svc_exc' = Some(e)
    /\ UNCHANGED <<shared_vars, svc_args>>

(* The caller has the result; the service is ready for the next call. *)
TranslateTextDone ==
    /\ svc_pc \in {"returned", "raised"}
    /\ svc_pc' = "idle"
    /\ svc_args' = NoArgs
    /\ backend_calls' = 0
    /\ svc_exc' = None
    /\ svc_result' = <<None, None>>
    /\ UNCHANGED shared_vars

BackendTexts == {<<>>, <<Run("b", 1)>>, <<Run("b", 2), Run(" ", 1)>>}

-----------------------------------------------------------------------------
(* translator.py: callers on several threads, each in a call of its own *)

(* Caller c calls translate_text, which runs up to its return or to the    *)
(* backend call.                                                           *)
CallTranslate(c, text, source_lang, target_lang) ==
    /\ calls[c].pc = "idle"
    /\ LET out == BeforeBackend(text, source_lang, target_lang, max_chars)
       IN  calls' = [calls EXCEPT ![c] =
                        [op |-> "translate_text", pc |-> out.pc,
                         args |-> [text |-> text, source_lang |-> source_lang,
                                   target_lang |-> target_lang],
                         backend_calls |-> IF out.pc = "backend" THEN 1 ELSE 0,
                         response |-> NoAnswer, result |-> out.result]]
    /\ max_chars' = FieldsAfterCall(max_chars, text)
    /\ UNCHANGED <<translator, seq_vars>>

(* Caller c calls detect_language, which runs up to its return or to       *)
(* self.translator.detect.                                                 *)
CallDetect(c, text) ==
    /\ calls[c].pc = "idle"
    /\ LET out == DetectBefore(text)
       IN  calls' = [calls EXCEPT ![c] =
                        [op |-> "detect_language", pc |-> out.pc,
                         args |-> [NoArgs EXCEPT !.text = text],
                         backend_calls |-> IF out.pc = "backend" THEN 1 ELSE 0,
                         response |-> NoAnswer, result |-> out.result]]
    /\ max_chars' = FieldsAfterCall(max_chars, text)
    /\ UNCHANGED <<translator, seq_vars>>

(* Caller c calls is_service_available, which runs up to the canary call. *)
CallAvailable(c) ==
    /\ calls[c].pc = "idle"
    /\ calls' = [calls EXCEPT ![c] =
                    [op |-> "is_service_available", pc |-> "backend",
                     args |-> CanaryArgs, backend_calls |-> 1,
                     response |-> NoAnswer, result |-> FALSE]]
    /\ max_chars' = FieldsAfterCall(max_chars, CanaryArgs.text)
    /\ UNCHANGED <<translator, seq_vars>>

(* The backend call of caller c returns: None, or an object holding value[1] *)
CallBackendReturns(c, value) ==
    /\ calls[c].pc = "backend"
    /\ LET call == calls[c]
           out == CASE call.op = "translate_text" ->
                           IF value = None THEN ExceptClauses(AttributeError)
                                           ELSE ReturnTranslated(value[1])
                    [] call.op = "detect_language" ->
                           IF value = None THEN DetectExcept(DetectAttributeError)
                                           ELSE DetectReturns(value[1])
                    [] call.op = "is_service_available" -> AvailableReturns(value)
       IN  calls' = [calls EXCEPT ![c] =
                        [call EXCEPT !.pc = out.pc, !.result = out.result,
                                     !.response = [answer |-> IF value = None THEN "null"
                                                                              ELSE "result",
                                                   value |-> value, exc |-> None]]]
    /\ UNCHANGED <<translator, max_chars, seq_vars>>

(* The backend call of caller c raises e. *)
CallBackendRaises(c, e) ==
    /\ calls[c].pc = "backend"
    /\ LET call == calls[c]
           out == CASE call.op = "translate_text" -> ExceptClauses(e)
                    [] call.op = "detect_language" -> DetectExcept(e)
                    [] call.op = "is_service_available" -> AvailableExcept(e)
       IN  calls' = [calls EXCEPT ![c] =
                        [call EXCEPT !.pc = out.pc, !.result = out.result,
                                     !.backend_calls =
                                         IF out.pc = "backend" THEN @ + 1 ELSE @,
                                     !.response = [answer |-> "raise", value |-> <<>>,
                                                   exc |-> Some(e)]]]
    /\ UNCHANGED <<translator, max_chars, seq_vars>>

(* Caller c has the result of its call. *)
CallDone(c) ==
    /\ calls[c].pc \in {"returned", "raised"}
    /\ calls' = [calls EXCEPT ![c] = IdleCall]
    /\ UNCHANGED <<translator, max_chars, seq_vars>>

-----------------------------------------------------------------------------
(* gui.py: TranslationApp *)

VARIABLES
    is_translating,   \* self.is_translating
    translate_button, \* state and text of self.translate_button
    progress_visible, \* whether self.progress_frame is gridded
    input_text,       \* content of self.input_text
    output_text,      \* content of self.output_text
    output_buttons,   \* states of copy_button, clear_output_button, export_button
    source_lang_var,  \* self.source_lang_var
    target_lang_var,  \* self.target_lang_var
    source_values,    \* self.source_lang_combo['values']
    target_values,    \* self.target_lang_combo['values']
    started,          \* translation threads started so far
    workers,          \* the translation threads: request number -> thread
    after_queue,      \* pending root.after(0, self.translation_complete, ...) calls
    delivered,        \* request number -> calls of translation_complete for it
    probe             \* the thread of check_service_availability

ui_vars ==
    <<is_translating, translate_button, progress_visible, input_text, output_text,
      output_buttons, source_lang_var, target_lang_var, source_values,
      target_values, started, workers, after_queue, delivered, probe>>

(* What the window and its translation threads hold *)
window_vars ==
    <<is_translating, translate_button, progress_visible, input_text, output_text,
      output_buttons, source_lang_var, target_lang_var, source_values,
      target_values, started, workers, after_queue, delivered>>

vars == <<svc_vars, ui_vars, reg_vars>>

MaxRequests == 2

Requests == 1..MaxRequests

NotAutoDetect(lang) == lang # "Auto Detect"

(* The list of the target combobox with nothing left out *)
TargetLanguageNames_All == get_language_names

(* [lang for lang in get_language_names() if lang != "Auto Detect"] *)
TargetLanguageNames == SelectSeq(get_language_names, NotAutoDetect)

NoThread ==
    [pc |-> "none", input_text |-> <<>>, source_lang |-> "", target_lang |-> "",
     exc |-> None, result |-> <<None, None>>]

AllDisabled == [copy |-> "disabled", clear |-> "disabled", export |-> "disabled"]

AllNormal == [copy |-> "normal", clear |-> "normal", export |-> "normal"]

(* TranslationApp.__init__: create_widgets, setup_layout *)
UiInit ==
    /\ is_translating = FALSE
    /\ translate_button = [state |-> "normal", text |-> "Translate"]
    /\ progress_visible = FALSE
    /\ input_text = <<>>
    /\ output_text = <<>>
    /\ output_buttons = AllDisabled
    /\ source_lang_var = "Auto Detect"
    /\ target_lang_var = "Spanish"
    /\ source_values = get_language_names
    /\ target_values = TargetLanguageNames
    /\ started = 0
    /\ workers = [r \in Requests |-> NoThread]
    /\ after_queue = <<>>
    /\ delivered = [r \in Requests |-> 0]
    /\ probe = [pc |-> "started"]

Init == ServiceInit /\ UiInit /\ RegistryInit

(* widget.get("1.0", tk.END): the content and the newline Tk ends it with *)
TkGet(content) == AppendChar(content, "\n")

(* Python truth value of an Optional[str] *)
Truthy(opt) == opt # None /\ opt[1] # <<>>

(* on_text_change: the state it gives the translate button *)
ButtonStateFor(content, translating) ==
    IF TextLen(Strip(TkGet(content))) > 0 /\ ~translating
    THEN "normal"
    ELSE "disabled"

(* <KeyRelease> or <Button-1> on the input area: on_text_change *)
on_text_change ==
    /\ translate_button' =
           [translate_button EXCEPT !.state = ButtonStateFor(input_text, is_translating)]
    /\ UNCHANGED <<is_translating, progress_visible, input_text, output_text,
                   output_buttons, source_lang_var, target_lang_var, source_values,
                   target_values, started, workers, after_queue, delivered>>
    /\ UNCHANGED <<svc_vars, reg_vars, probe>>

(* A key press in the input area leaves it holding `content`. *)
EditInput(content) ==
    /\ input_text' = content
    /\ UNCHANGED <<is_translating, translate_button, progress_visible, output_text,
                   output_buttons, source_lang_var, target_lang_var, source_values,
                   target_values, started, workers, after_queue, delivered>>
    /\ UNCHANGED <<svc_vars, reg_vars, probe>>

(* paste_text with a non-empty clipboard *)
paste_text(clipboard_text) ==
    /\ clipboard_text # <<>>
    /\ input_text' = clipboard_text
    /\ translate_button' =
           [translate_button EXCEPT !.state = ButtonStateFor(clipboard_text, is_translating)]
    /\ UNCHANGED <<is_translating, progress_visible, output_text,
                   output_buttons, source_lang_var, target_lang_var, source_values,
                   target_values, started, workers, after_queue, delivered>>
    /\ UNCHANGED <<svc_vars, reg_vars, probe>>

clear_input ==
    /\ input_text' = <<>>
    /\ translate_button' =
           [translate_button EXCEPT !.state = ButtonStateFor(<<>>, is_translating)]
    /\ UNCHANGED <<is_translating, progress_visible, output_text,
                   output_buttons, source_lang_var, target_lang_var, source_values,
                   target_values, started, workers, after_queue, delivered>>
    /\ UNCHANGED <<svc_vars, reg_vars, probe>>

(* The clear button of the output area, which is clickable when enabled *)
clear_output ==
    /\ output_buttons.clear = "normal"
    /\ output_text' = <<>>
    /\ output_buttons' = AllDisabled
    /\ UNCHANGED <<is_translating, translate_button, progress_visible, input_text,
                   source_lang_var, target_lang_var, source_values,
                   target_values, started, workers, after_queue, delivered>>
    /\ UNCHANGED <<svc_vars, reg_vars, probe>>

(* on_language_change: the target it leaves selected *)
AfterLanguageChange(target) == IF target = "Auto Detect" THEN "English" ELSE target

(* A language chosen in the list of the source combobox: <<ComboboxSelected>> *)
SelectSource(lang) ==
    /\ lang \in Range(source_values)
    /\ source_lang_var' = lang
    /\ target_lang_var' = AfterLanguageChange(target_lang_var)
    /\ UNCHANGED <<is_translating, translate_button, progress_visible, input_text,
                   output_text, output_buttons, source_values,
                   target_values, started, workers, after_queue, delivered>>
    /\ UNCHANGED <<svc_vars, reg_vars, probe>>

(* A language chosen in the list of the target combobox: <<ComboboxSelected>> *)
SelectTarget(lang) ==
    /\ lang \in Range(target_values)
    /\ target_lang_var' = AfterLanguageChange(lang)
    /\ UNCHANGED <<is_translating, translate_button, progress_visible, input_text,
                   output_text, output_buttons, source_lang_var, source_values,
                   target_values, started, workers, after_queue, delivered>>
    /\ UNCHANGED <<svc_vars, reg_vars, probe>>

(* The language search handlers: the values they install for the typed     *)
(* string, among all_languages.                                            *)
SearchValues(typed, all_languages) ==
    LET search_text == Lower(typed)
        Matches(lang) == Contains(Lower(lang), search_text)
    IN  IF search_text # <<>> THEN SelectSeq(all_languages, Matches) ELSE all_languages

(* The language search handlers: the string they leave in the variable *)
SearchSelection(typed, all_languages) ==
    LET search_text == Lower(typed)
        IsExact(lang) == Lower(lang) = search_text
        exact == SelectSeq(all_languages, IsExact)
    IN  IF search_text # <<>> /\ exact # <<>> THEN Head(exact) ELSE typed

(* Keys typed in the source combobox leave `typed` in it: on_source_lang_search *)
on_source_lang_search(typed) ==
    /\ source_values' = SearchValues(typed, get_language_names)
    /\ source_lang_var' = SearchSelection(typed, get_language_names)
    /\ UNCHANGED <<is_translating, translate_button, progress_visible, input_text,
                   output_text, output_buttons, target_lang_var,
                   target_values, started, workers, after_queue, delivered>>
    /\ UNCHANGED <<svc_vars, reg_vars, probe>>

(* Keys typed in the target combobox leave `typed` in it: on_target_lang_search *)
on_target_lang_search(typed) ==
    /\ target_values' = SearchValues(typed, TargetLanguageNames)
    /\ target_lang_var' = SearchSelection(typed, TargetLanguageNames)
    /\ UNCHANGED <<is_translating, translate_button, progress_visible, input_text,
                   output_text, output_buttons, source_lang_var,
                   source_values, started, workers, after_queue, delivered>>
    /\ UNCHANGED <<svc_vars, reg_vars, probe>>

swap_languages ==
    /\ IF source_lang_var = "Auto Detect"
       THEN UNCHANGED <<source_lang_var, target_lang_var, input_text, output_text,
                        output_buttons>>
       ELSE /\ source_lang_var' = target_lang_var
            /\ target_lang_var' = source_lang_var
            /\ LET out == Strip(TkGet(output_text))
               IN  IF out # <<>>
                   THEN /\ input_text' = out
                        /\ output_text' = <<>>
                        /\ output_buttons' = AllDisabled
                   ELSE UNCHANGED <<input_text, output_text, output_buttons>>
    /\ UNCHANGED <<is_translating, translate_button, progress_visible,
                   source_values, target_values, started, workers, after_queue,
                   delivered>>
    /\ UNCHANGED <<svc_vars, reg_vars, probe>>

-----------------------------------------------------------------------------
(* gui.py: the translate request *)

(* translate_text without its `if self.is_translating: return` *)
Busy_Never == FALSE

(* Line 744: the guard translate_text starts with *)
Busy == is_translating

(* translate_text, called by the translate button, Ctrl+Return or F5:      *)
(* start_translation and the start of the worker thread, or an early       *)
(* return.                                                                 *)
translate_text ==
    LET text == Strip(TkGet(input_text))
    IN  IF Busy \/ text = <<>>
        THEN UNCHANGED vars
        ELSE /\ is_translating' = TRUE
             /\ translate_button' = [state |-> "disabled", text |-> "Translating..."]
             /\ progress_visible' = TRUE
             /\ started' = started + 1
             /\ workers' =
                    [workers EXCEPT ![started + 1] =
                        [pc |-> "started",
                         input_text |-> text,
                         source_lang |-> get_language_code(source_lang_var),
                         target_lang |-> get_language_code(target_lang_var),
                         exc |-> None,
                         result |-> <<None, None>>]]
             /\ UNCHANGED <<input_text, output_text, output_buttons, source_lang_var,
                            target_lang_var, source_values, target_values,
                            after_queue, delivered>>
             /\ UNCHANGED <<svc_vars, reg_vars, probe>>

(* A click on the translate button, which takes clicks when enabled *)
TranslateButton ==
    /\ started < MaxRequests
    /\ translate_button.state = "normal"
    /\ translate_text

(* Ctrl+Return in the input area, or F5 *)
TranslateKey ==
    /\ started < MaxRequests
    /\ translate_text

(* A worker thread that translate_text has returned to, or raised in: its  *)
(* arguments are not read again.                                           *)
Returned(out, exc) == [NoThread EXCEPT !.pc = out.pc, !.result = out.result, !.exc = exc]

(* The worker thread of request r calls self.translator.translate_text and *)
(* runs it up to its return or to the backend call.                        *)
WorkerCalls(r) ==
    /\ workers[r].pc = "started"
    /\ LET w == workers[r]
           out == BeforeBackend(w.input_text, w.source_lang, w.target_lang, max_chars)
       IN  workers' = [workers EXCEPT ![r] =
                          IF out.pc = "backend"
                          THEN [w EXCEPT !.pc = out.pc]
                          ELSE Returned(out, None)]
    /\ UNCHANGED <<is_translating, translate_button, progress_visible, input_text,
                   output_text, output_buttons, source_lang_var, target_lang_var,
                   source_values, target_values, started, after_queue, delivered>>
    /\ UNCHANGED <<svc_vars, reg_vars, probe>>

(* The backend call of the worker of request r returns `translated`. *)
WorkerBackendReturns(r, translated) ==
    /\ workers[r].pc = "backend"
    /\ workers' = [workers EXCEPT ![r] = Returned(ReturnTranslated(translated), None)]
    /\ UNCHANGED <<is_translating, translate_button, progress_visible, input_text,
                   output_text, output_buttons, source_lang_var, target_lang_var,
                   source_values, target_values, started, after_queue, delivered>>
    /\ UNCHANGED <<svc_vars, reg_vars, probe>>

(* The backend call of the worker of request r raises e. *)
WorkerBackendRaises(r, e) ==
    /\ workers[r].pc = "backend"
    /\ workers' = [workers EXCEPT ![r] = Returned(ExceptClauses(e), Some(e))]
    /\ UNCHANGED <<is_translating, translate_button, progress_visible, input_text,
                   output_text, output_buttons, source_lang_var, target_lang_var,
                   source_values, target_values, started, after_queue, delivered>>
    /\ UNCHANGED <<svc_vars, reg_vars, probe>>

(* The worker calling root.after in a `finally` as well *)
Posted_Twice(r, w) ==
    <<[request |-> r, translated_text |-> w.result[1], error |-> w.result[2]],
      [request |-> r, translated_text |-> w.result[1], error |-> w.result[2]]>>

(* The worker returning without root.after when the service reports an error *)
Posted_DropsErrors(r, w) ==
    IF w.result[2] # None
    THEN <<>>
    ELSE <<[request |-> r, translated_text |-> w.result[1], error |-> w.result[2]]>>

(* Lines 766 and 769: the root.after calls the worker of request r makes   *)
(* once translate_text has returned or raised.                             *)
Posted(r, w) ==
    IF w.pc = "returned"
    THEN <<[request |-> r, translated_text |-> w.result[1], error |-> w.result[2]]>>
    ELSE <<[request |-> r, translated_text |-> None, error |-> Some(w.exc[1].msg)]>>

(* The worker of request r hands its result to the event loop and ends. *)
WorkerPosts(r) ==
    /\ workers[r].pc \in {"returned", "raised"}
    /\ after_queue' = after_queue \o Posted(r, workers[r])
    /\ workers' = [workers EXCEPT ![r] = [NoThread EXCEPT !.pc = "done"]]
    /\ UNCHANGED <<is_translating, translate_button, progress_visible, input_text,
                   output_text, output_buttons, source_lang_var, target_lang_var,
                   source_values, target_values, started, delivered>>
    /\ UNCHANGED <<svc_vars, reg_vars, probe>>

(* Lines 816-818: the message translation_complete puts in the status bar  *)
(* and in the error dialog, if any                                         *)
ShownError(error) == IF Truthy(error) THEN error ELSE None

(* The event loop runs the oldest pending translation_complete(...). *)
translation_complete ==
    /\ after_queue # <<>>
    /\ LET call == Head(after_queue)
       IN  /\ delivered' = [delivered EXCEPT ![call.request] = @ + 1]
           /\ is_translating' = FALSE
           /\ progress_visible' = FALSE
           /\ IF ~Truthy(call.error) /\ Truthy(call.translated_text)
              THEN /\ output_text' = call.translated_text[1]
                   /\ output_buttons' = AllNormal
              ELSE UNCHANGED <<output_text, output_buttons>>
           /\ translate_button' =
                  [state |-> ButtonStateFor(input_text, FALSE), text |-> "Translate"]
    /\ after_queue' = Tail(after_queue)
    /\ UNCHANGED <<input_text, source_lang_var, target_lang_var, source_values,
                   target_values, started, workers>>
    /\ UNCHANGED <<svc_vars, reg_vars, probe>>

-----------------------------------------------------------------------------
(* gui.py: check_service_availability, whose thread __init__ starts *)

(* The thread calls self.translator.is_service_available, which runs up to *)
(* the canary call of the backend.                                         *)
ProbeCalls ==
    /\ probe.pc = "started"
    /\ probe' = [pc |-> "backend"]
    /\ UNCHANGED <<svc_vars, reg_vars, window_vars>>

(* What is left of the thread once is_service_available is over: if it     *)
(* returned false the thread hands update_status to the event loop, and it *)
(* ends.                                                                   *)
ProbeEnds(out) == [pc |-> "done"]

(* The canary call returns None, or an object holding value[1]. *)
ProbeBackendReturns(value) ==
    /\ probe.pc = "backend"
    /\ probe' = ProbeEnds(AvailableReturns(value))
    /\ UNCHANGED <<svc_vars, reg_vars, window_vars>>

(* The canary call raises e. *)
ProbeBackendRaises(e) ==
    /\ probe.pc = "backend"
    /\ probe' = ProbeEnds(AvailableExcept(e))
    /\ UNCHANGED <<svc_vars, reg_vars, window_vars>>

-----------------------------------------------------------------------------
(* Specifications *)

(* Any caller of the service: one translate_text invocation after another *)
NextService ==
    \/ \E text \in Texts, source_lang \in Codes, target_lang \in Codes :
           /\ TranslateTextCall(text, source_lang, target_lang)
           /\ UNCHANGED <<ui_vars, reg_vars>>
    \/ \E translated \in BackendTexts :
           /\ BackendReturns(translated)
           /\ UNCHANGED <<ui_vars, reg_vars>>
    \/ \E e \in Exceptions \cup {AttributeError} :
           /\ BackendRaises(e)
           /\ UNCHANGED <<ui_vars, reg_vars>>
    \/ /\ TranslateTextDone
       /\ UNCHANGED <<ui_vars, reg_vars>>

SpecService == Init /\ [][NextService]_vars

(* What concurrent callers pass, and what the backend answers them *)
CallTexts == {<<>>, <<Run(" ", 1)>>, <<Run("a", MAX_CHARS)>>}

CallSources == {"auto", "en"}

CallTargets == {"en"}

DetectedCodes == {"en", "es"}

CallExceptions == [type : ExceptionTypes, msg : {<<>>, <<"boom">>}]

(* What the backend may return to a call of `op` *)
AnswersFor(op) ==
    IF op = "detect_language"
    THEN {None} \cup {Some(lang) : lang \in DetectedCodes}
    ELSE {None, Some(<<Run("b", 1)>>)}

CallStep(c) ==
    \/ \E text \in CallTexts, source_lang \in CallSources, target_lang \in CallTargets :
           CallTranslate(c, text, source_lang, target_lang)
    \/ \E text \in CallTexts : CallDetect(c, text)
    \/ CallAvailable(c)
    \/ \E value \in AnswersFor(calls[c].op) : CallBackendReturns(c, value)
    \/ \E e \in CallExceptions : CallBackendRaises(c, e)
    \/ CallDone(c)

(* Several threads that call the three operations of one service *)
NextCalls == \E c \in CallIds : CallStep(c) /\ UNCHANGED <<ui_vars, reg_vars>>

SpecCalls == Init /\ [][NextCalls]_vars

(* The names and codes a caller looks up: those of the registry, and others *)
NameInputs == DOMAIN Spell

CodeInputs == RegistryCodes \cup {"", "zz", "EN", "English"}

NextRegistry ==
    \/ \E language_name \in NameInputs :
           LookupCode(language_name) /\ UNCHANGED <<svc_vars, ui_vars>>
    \/ \E language_code \in CodeInputs :
           LookupName(language_code) /\ UNCHANGED <<svc_vars, ui_vars>>
    \/ ForgetLookups /\ UNCHANGED <<svc_vars, ui_vars>>

SpecRegistry == Init /\ [][NextRegistry]_vars

(* What the user of the window types, pastes and chooses *)
UiTexts == {<<>>, <<Run(" ", 1)>>, <<Run("a", 1)>>}

PickLanguages == {"Auto Detect", "English"}

SourceTyped == {"", "auto detect"}

TargetTyped == {"", "Auto Detect"}

UiBackendTexts == {<<>>, <<Run("b", 1)>>}

UiExceptions ==
    {[type |-> "Exception", msg |-> <<"boom">>],
     [type |-> "ConnectionError", msg |-> <<>>]}

UserAction ==
    \/ on_text_change
    \/ \E content \in UiTexts : EditInput(content)
    \/ \E clipboard_text \in UiTexts : paste_text(clipboard_text)
    \/ clear_input
    \/ clear_output
    \/ \E lang \in PickLanguages : SelectSource(lang)
    \/ \E lang \in PickLanguages : SelectTarget(lang)
    \/ \E typed \in SourceTyped : on_source_lang_search(typed)
    \/ \E typed \in TargetTyped : on_target_lang_search(typed)
    \/ swap_languages
    \/ TranslateButton
    \/ TranslateKey

WorkerStep(r) ==
    \/ WorkerCalls(r)
    \/ \E translated \in UiBackendTexts : WorkerBackendReturns(r, translated)
    \/ \E e \in UiExceptions : WorkerBackendRaises(r, e)
    \/ WorkerPosts(r)

ProbeStep ==
    \/ ProbeCalls
    \/ \E value \in {None, Some(<<Run("b", 1)>>)} : ProbeBackendReturns(value)
    \/ \E e \in UiExceptions : ProbeBackendRaises(e)

NextUI ==
    \/ UserAction
    \/ \E r \in Requests : WorkerStep(r)
    \/ translation_complete

SpecUI == Init /\ [][NextUI]_vars

(* The backend call returns or raises, threads run, and the event loop     *)
(* runs the callbacks handed to it.                                        *)
FairSpecUI ==
    /\ SpecUI
    /\ \A r \in Requests : WF_vars(WorkerStep(r))
    /\ WF_vars(translation_complete)

(* The window and the availability thread that __init__ starts.  The       *)
(* thread reads and writes nothing that the window or its translation      *)
(* threads hold, the translator apart: SpecUI is this specification with   *)
(* the steps of the thread left out.                                       *)
NextStartup ==
    \/ NextUI
    \/ ProbeStep

SpecStartup == Init /\ [][NextStartup]_vars

-----------------------------------------------------------------------------
(* The failure kinds of the specification, read off the message returned *)

KindOf(error) ==
    CASE error = <<"Please enter text to translate">> -> "InvalidInput"
      [] error = <<"Text too long. Maximum ", ToString(MAX_CHARS), " characters allowed.">> ->
             "InvalidInput"
      [] error = <<"Network error: Please check your internet connection">> -> "NetworkError"
      [] error = <<"Translation timeout: Please try again">> -> "TimeoutError"
      [] error # <<>> /\ Head(error) = "Translation service error: " -> "BackendError"
      [] error = <<"Rate limit exceeded: Please wait a moment and try again">> -> "RateLimited"
      [] error = <<"Translation service access denied: Please check your connection">> ->
             "AccessDenied"
      [] error = <<"Translation service temporarily unavailable">> -> "Unavailable"
      [] error # <<>> /\ Head(error) = "Translation failed: " -> "UnknownError"
      [] OTHER -> "none"

(* The text is empty or whitespace only *)
Blank(text) == \A i \in 1..Len(text) : IsSpace(text[i].ch)

TooLong(text) == TextLen(text) > MAX_CHARS

Invoked == svc_pc # "idle"

Failed == svc_result[1] = None /\ svc_result[2] # None

FailureKind == IF Failed THEN KindOf(svc_result[2][1]) ELSE "none"

TypedError(e) ==
    IsInstance(e, "ConnectionError") \/ IsInstance(e, "Timeout") \/ IsInstance(e, "HTTPError")

(* The message has "429" in it or, in any case, "too many requests" *)
ReportsRateLimit(msg) ==
    \E i \in 1..Len(msg) :
        msg[i] \in {"429", "too many requests", "Too Many Requests", "TOO MANY REQUESTS"}

ReportsForbidden(msg) ==
    \E i \in 1..Len(msg) : msg[i] \in {"403", "forbidden", "Forbidden", "FORBIDDEN"}

ReportsUnavailable(msg) ==
    \E i \in 1..Len(msg) :
        msg[i] \in {"service unavailable", "Service Unavailable", "SERVICE UNAVAILABLE"}

-----------------------------------------------------------------------------
(* C1: for every text that is empty or whitespace only, and for every text *)
(* of more than 5000 characters, translate_text returns no text and an     *)
(* InvalidInput message and has made no backend call, for every pair of    *)
(* codes, equal codes included.                                            *)
C1_InvalidInputNoBackend ==
    Invoked /\ (Blank(svc_args.text) \/ TooLong(svc_args.text)) =>
        /\ svc_pc = "returned"
        /\ Failed
        /\ FailureKind = "InvalidInput"
        /\ backend_calls = 0

(* A text of more than 5000 characters with source equal to target was rejected *)
C1_Witness ==
    /\ svc_pc = "returned"
    /\ TooLong(svc_args.text)
    /\ ~Blank(svc_args.text)
    /\ svc_args.source_lang = "en"
    /\ svc_args.target_lang = "en"
    /\ FailureKind = "InvalidInput"

(* C2: for every valid text and every code c other than "auto",            *)
(* translate_text(text, c, c) returns the text unchanged and no error and  *)
(* makes no backend call; with both codes "auto" the backend is called.    *)
C2_SameLanguageIdentity ==
    /\ Invoked
    /\ ~Blank(svc_args.text)
    /\ ~TooLong(svc_args.text)
    /\ svc_args.source_lang = svc_args.target_lang
    => IF svc_args.source_lang # "auto"
       THEN /\ svc_pc = "returned"
            /\ svc_result = <<Some(svc_args.text), None>>
            /\ backend_calls = 0
       ELSE backend_calls = 1

(* A text with leading whitespace came back as it was, with no backend call *)
C2_Witness ==
    /\ svc_pc = "returned"
    /\ svc_args = [text |-> <<Run(" ", 1), Run("a", 1)>>, source_lang |-> "es",
                   target_lang |-> "es"]
    /\ svc_result = <<Some(<<Run(" ", 1), Run("a", 1)>>), None>>
    /\ backend_calls = 0

(* C3 as claimed: whenever the backend call fails with an error whose      *)
(* message has "429" or, in any case, "too many requests" in it, the       *)
(* result is a RateLimited failure, whatever the type of the error.        *)
C3_RateLimitedWhateverType ==
    svc_exc # None /\ ReportsRateLimit(svc_exc[1].msg) => FailureKind = "RateLimited"

(* C3 amended: whenever the backend call fails with an error that is not a *)
(* connection error, a timeout or an HTTP error and whose message has      *)
(* "429" or, in any case, "too many requests" in it, the result is a       *)
(* RateLimited failure.                                                    *)
C3_RateLimitedUntyped ==
    svc_exc # None /\ ReportsRateLimit(svc_exc[1].msg) /\ ~TypedError(svc_exc[1])
        => svc_pc = "returned" /\ FailureKind = "RateLimited"

(* A generic exception saying "Too Many Requests" was reported as rate limiting *)
C3_Witness ==
    /\ svc_exc = Some([type |-> "Exception", msg |-> <<"boom", "Too Many Requests">>])
    /\ FailureKind = "RateLimited"

(* C4: a connectivity error gives a NetworkError failure; otherwise a      *)
(* timeout gives a TimeoutError failure; otherwise an HTTP error gives a   *)
(* BackendError failure whose message ends with the text of the error;     *)
(* the three are tested in this order and before any rule on the message.  *)
C4_TypedErrors ==
    svc_exc # None /\ TypedError(svc_exc[1]) =>
        /\ svc_pc = "returned"
        /\ Failed
        /\ IF IsInstance(svc_exc[1], "ConnectionError")
           THEN FailureKind = "NetworkError"
           ELSE IF IsInstance(svc_exc[1], "Timeout")
           THEN FailureKind = "TimeoutError"
           ELSE /\ FailureKind = "BackendError"
                /\ Tail(svc_result[2][1]) = svc_exc[1].msg

(* A connect timeout whose message reports rate limiting was a NetworkError *)
C4_Witness ==
    /\ svc_exc = Some([type |-> "ConnectTimeout", msg |-> <<"429">>])
    /\ FailureKind = "NetworkError"

(* The kind the ordered rules give a message *)
RuleKind(msg) ==
    IF ReportsRateLimit(msg) THEN "RateLimited"
    ELSE IF ReportsForbidden(msg) THEN "AccessDenied"
    ELSE IF ReportsUnavailable(msg) THEN "Unavailable"
    ELSE "UnknownError"

(* C5: an exception that is none of the typed cases is classified by the   *)
(* first rule its lower-cased message matches: "429" or "too many          *)
(* requests" RateLimited, "403" or "forbidden" AccessDenied, "service      *)
(* unavailable" Unavailable, else UnknownError, whose message ends with    *)
(* the message of the backend as it was.                                   *)
C5_OrderedRules ==
    svc_exc # None /\ ~TypedError(svc_exc[1]) =>
        /\ svc_pc = "returned"
        /\ Failed
        /\ FailureKind = RuleKind(svc_exc[1].msg)
        /\ FailureKind = "UnknownError" => Tail(svc_result[2][1]) = svc_exc[1].msg

(* A message matching the 403 rule and the 429 rule was RateLimited *)
C5_Witness ==
    /\ svc_exc = Some([type |-> "Exception", msg |-> <<"Forbidden", "429">>])
    /\ FailureKind = "RateLimited"

(* C10: translate_text never lets an exception out, and it returns either  *)
(* a text and no error, or no text and an error message that is not empty. *)
C10_WellFormedResult ==
    svc_pc \in {"returned", "raised"} =>
        /\ svc_pc = "returned"
        /\ \/ svc_result[1] # None /\ svc_result[2] = None
           \/ svc_result[1] = None /\ svc_result[2] # None /\ svc_result[2][1] # <<>>

(* An exception with an empty message was turned into a failure *)
C10_Witness ==
    /\ svc_pc = "returned"
    /\ svc_exc = Some([type |-> "Exception", msg |-> <<>>])
    /\ svc_result = <<None, Some(<<"Translation failed: ">>)>>

-----------------------------------------------------------------------------
(* Request r has been started and translation_complete has not run for it *)
Outstanding(r) == r <= started /\ delivered[r] = 0

(* The results of request r on their way: in its thread, or in the event loop *)
InThread(r) == IF workers[r].pc \in {"started", "backend", "returned", "raised"} THEN 1 ELSE 0

InQueue(r) == Cardinality({i \in 1..Len(after_queue) : after_queue[i].request = r})

(* C6: at most one translate request is outstanding, whatever translate    *)
(* triggers, edits, pastes, swaps and completions occur: no worker thread  *)
(* is started while an earlier request awaits its translation_complete.    *)
C6_AtMostOneOutstanding ==
    /\ Cardinality({r \in Requests : Outstanding(r)}) <= 1
    /\ \A r \in Requests : Outstanding(r) => r = started /\ is_translating

(* The second request is outstanding, the first one delivered *)
C6_Witness ==
    /\ started = 2
    /\ delivered[1] = 1
    /\ Outstanding(2)
    /\ workers[2].pc = "backend"

(* C7: the result of every started request is delivered to                 *)
(* translation_complete exactly once, after the start of the request, and  *)
(* every translation_complete is for the request started last.             *)
C7_DeliveredExactlyOnce ==
    /\ [](\A r \in Requests :
             /\ delivered[r] <= 1
             /\ r > started => delivered[r] = 0 /\ InThread(r) = 0 /\ InQueue(r) = 0
             /\ r <= started => InThread(r) + InQueue(r) + delivered[r] = 1)
    /\ [][\A r \in Requests : delivered'[r] # delivered[r] => r = started]_vars

(* Two requests have each been delivered once *)
C7_Witness ==
    /\ started = 2
    /\ delivered[1] = 1
    /\ delivered[2] = 1
    /\ after_queue = <<>>

(* C8: under fairness of the threads and of the event loop, every started  *)
(* request reaches translation_complete, and then is_translating is false, *)
(* the progress indicator is hidden and a request can be started again.    *)
C8_EventuallyComplete ==
    \A r \in Requests :
        Outstanding(r) ~> (delivered[r] = 1 /\ ~is_translating /\ ~progress_visible /\ ~Busy)

(* A request that failed in the backend has been completed *)
C8_Witness ==
    /\ delivered[1] = 1
    /\ started = 1
    /\ ~is_translating
    /\ ~progress_visible
    /\ workers[1].pc = "done"

(* C9: every request passed to the service has a target code that is a     *)
(* registry code and is not "auto", after any choosing, typing, searching  *)
(* and swapping in the language selectors.                                 *)
C9_TargetNeverAuto ==
    \A r \in Requests :
        workers[r].pc = "started" =>
            workers[r].target_lang \in RegistryCodes \ {"auto"}

-----------------------------------------------------------------------------
(* The calls of concurrent callers *)

CallsOf(op) == {c \in CallIds : calls[c].op = op}

(* The failure kinds of detect_language, read off the message returned *)
DetectKindOf(error) ==
    CASE error = <<"No text provided for language detection">> -> "InvalidInput"
      [] error # <<>> /\ Head(error) = "Language detection failed: " -> "UnknownError"
      [] OTHER -> "none"

(* The characters of a text whose runs have length 1 *)
Letters(text) == [i \in 1..Len(text) |-> text[i].ch]

(* C11: is_service_available never raises; it makes one backend            *)
(* translation of "test" from en to es, returns false whenever that call   *)
(* raises, whatever the exception, and returns true whenever that call     *)
(* hands back a result.                                                    *)
C11_AvailabilityProbe ==
    \A c \in CallsOf("is_service_available") :
        LET call == calls[c]
        IN  /\ call.pc # "raised"
            /\ call.backend_calls = 1
            /\ Letters(call.args.text) = <<"t", "e", "s", "t">>
            /\ TextLen(call.args.text) = 4
            /\ call.args.source_lang = "en"
            /\ call.args.target_lang = "es"
            /\ call.response.answer = "none" => call.pc = "backend"
            /\ call.response.answer = "raise" => call.pc = "returned" /\ call.result = FALSE
            /\ call.response.answer = "result" => call.pc = "returned" /\ call.result = TRUE

(* The canary call raised an exception that is not one of requests, and    *)
(* the probe returned false                                                *)
C11_Witness ==
    \E c \in CallsOf("is_service_available") :
        /\ calls[c].pc = "returned"
        /\ calls[c].response.answer = "raise"
        /\ ~TypedError(calls[c].response.exc[1])
        /\ calls[c].result = FALSE

(* C12: detect_language never raises; for a text that is empty or          *)
(* whitespace only it returns an InvalidInput failure and makes no backend *)
(* call; for any other text it calls the detection of the backend once,    *)
(* returns the detected code and no error when the backend detects one,    *)
(* and returns no code and a message that ends with the message of the     *)
(* exception when the backend raises one.                                  *)
C12_DetectLanguage ==
    \A c \in CallsOf("detect_language") :
        LET call == calls[c]
        IN  /\ call.pc # "raised"
            /\ IF Blank(call.args.text)
               THEN /\ call.pc = "returned"
                    /\ call.backend_calls = 0
                    /\ call.result[1] = None
                    /\ call.result[2] # None
                    /\ DetectKindOf(call.result[2][1]) = "InvalidInput"
               ELSE call.backend_calls = 1
            /\ call.response.answer = "result" =>
                   /\ call.pc = "returned"
                   /\ call.result = <<call.response.value, None>>
            /\ call.response.answer = "raise" =>
                   /\ call.pc = "returned"
                   /\ call.result[1] = None
                   /\ call.result[2] =
                          Some(<<"Language detection failed: ">> \o call.response.exc[1].msg)
                   /\ DetectKindOf(call.result[2][1]) = "UnknownError"

(* A text of one space was rejected without a backend call *)
C12_Witness ==
    \E c \in CallsOf("detect_language") :
        /\ calls[c].pc = "returned"
        /\ calls[c].args.text = <<Run(" ", 1)>>
        /\ calls[c].backend_calls = 0
        /\ DetectKindOf(calls[c].result[2][1]) = "InvalidInput"

(* C13: one translate_text invocation calls the backend at most once, and  *)
(* when that call has failed the invocation has returned the failure: no   *)
(* kind of failure makes the service call the backend again.               *)
C13_NoRetry ==
    /\ backend_calls <= 1
    /\ svc_pc = "backend" => svc_exc = None
    /\ svc_exc # None => svc_pc = "returned" /\ Failed /\ FailureKind # "none"

(* A timeout of the backend call ended the invocation after one call *)
C13_Witness ==
    /\ svc_pc = "returned"
    /\ svc_exc # None
    /\ svc_exc[1].type = "Timeout"
    /\ backend_calls = 1
    /\ FailureKind = "TimeoutError"

(* C18: no call of translate_text, detect_language or is_service_available *)
(* changes max_chars or the translator reference of the service, and when  *)
(* calls interleave, two calls of the same operation with the same         *)
(* arguments and the same answer of the backend have the same result.      *)
C18_StatelessReentrant ==
    /\ [](\A c \in CallIds, d \in CallIds :
              /\ calls[c].pc = "returned"
              /\ calls[d].pc = "returned"
              /\ calls[c].op = calls[d].op
              /\ calls[c].args = calls[d].args
              /\ calls[c].response = calls[d].response
              => calls[c].result = calls[d].result)
    /\ [][max_chars' = max_chars /\ translator' = translator]_vars

(* A call was made and answered while another call with the same arguments *)
(* was waiting for the backend                                             *)
C18_Witness ==
    /\ calls[1].op = "translate_text"
    /\ calls[2].op = "translate_text"
    /\ calls[1].args = calls[2].args
    /\ calls[1].pc = "backend"
    /\ calls[2].pc = "returned"
    /\ calls[2].response.answer = "raise"
    /\ max_chars = MAX_CHARS

-----------------------------------------------------------------------------
(* The lookups of the registry *)

RegistryNames == Range(LanguageKeys)

(* The code registered for a name, and the names registered with a code *)
CodesOf(name) == {LANGUAGES[i].code : i \in {j \in 1..Len(LANGUAGES) : LANGUAGES[j].name = name}}

NamesOf(code) == {LANGUAGES[i].name : i \in {j \in 1..Len(LANGUAGES) : LANGUAGES[j].code = code}}

(* C14: get_language_code gives the code registered for a name that is in  *)
(* the registry letter for letter, case included, and "en" for any other   *)
(* string; get_language_name gives a name registered with a code that is   *)
(* in the registry and "English" for any other string.                     *)
C14_LookupsFallBack ==
    \A k \in 1..Len(lookups) :
        LET l == lookups[k]
        IN  IF l.fn = "get_language_code"
            THEN IF l.arg \in RegistryNames THEN l.result \in CodesOf(l.arg)
                                            ELSE l.result = "en"
            ELSE IF l.arg \in RegistryCodes THEN l.result \in NamesOf(l.arg)
                                            ELSE l.result = "English"

(* A registry name in lower case was looked up, then a code in upper case *)
C14_Witness ==
    /\ Len(lookups) = 1
    /\ \/ /\ lookups[1].fn = "get_language_code"
          /\ lookups[1].arg = "auto detect"
          /\ lookups[1].result = "en"
       \/ /\ lookups[1].fn = "get_language_name"
          /\ lookups[1].arg = "EN"
          /\ lookups[1].result = "English"

(* C15: for every name n of the registry,                                  *)
(* get_language_code(get_language_name(get_language_code(n))) is           *)
(* get_language_code(n).                                                   *)
C15_RoundTripStable ==
    /\ Len(lookups) >= 3
    /\ lookups[1].fn = "get_language_code"
    /\ lookups[1].arg \in RegistryNames
    /\ lookups[2].fn = "get_language_name"
    /\ lookups[3].fn = "get_language_code"
    => lookups[3].result = lookups[1].result

(* The round trip was made from the first name of the registry *)
C15_Witness ==
    /\ Len(lookups) = 3
    /\ lookups[1] = [fn |-> "get_language_code", arg |-> "Auto Detect", result |-> "auto"]
    /\ lookups[2] = [fn |-> "get_language_name", arg |-> "auto", result |-> "Auto Detect"]
    /\ lookups[3] = [fn |-> "get_language_code", arg |-> "Auto Detect", result |-> "auto"]

(* C16: no two names of the registry have the same code; so for every      *)
(* name n of the registry get_language_name(get_language_code(n)) is n,    *)
(* and for every code c of the registry                                    *)
(* get_language_code(get_language_name(c)) is c.                           *)
C16_CodesUnique ==
    /\ \A i \in 1..Len(LANGUAGES), j \in 1..Len(LANGUAGES) :
           LANGUAGES[i].code = LANGUAGES[j].code => i = j
    /\ Len(lookups) >= 2 =>
           /\ /\ lookups[1].fn = "get_language_code"
              /\ lookups[1].arg \in RegistryNames
              /\ lookups[2].fn = "get_language_name"
              => lookups[2].result = lookups[1].arg
           /\ /\ lookups[1].fn = "get_language_name"
              /\ lookups[1].arg \in RegistryCodes
              /\ lookups[2].fn = "get_language_code"
              => lookups[2].result = lookups[1].arg

(* Spanish was looked up by name, and its code by code *)
C16_Witness ==
    /\ Len(lookups) = 2
    /\ lookups[1] = [fn |-> "get_language_code", arg |-> "Spanish", result |-> "es"]
    /\ lookups[2] = [fn |-> "get_language_name", arg |-> "es", result |-> "Spanish"]

-----------------------------------------------------------------------------
(* The listings of the language selectors *)

(* Each name is before the next one in the order of sorted() *)
Ascending(list) ==
    \A i \in 1..(Len(list) - 1) : StrLess(Spell[list[i]], Spell[list[i + 1]])

(* The list has every name of the registry once, in ascending order *)
EveryNameOnceAscending(list) ==
    /\ Range(list) = Range(LanguageKeys)
    /\ Len(list) = Len(LANGUAGES)
    /\ Ascending(list)

(* get_language_names() is every name of the registry once, in ascending   *)
(* order, "Auto Detect" among them                                         *)
NamesListed ==
    /\ EveryNameOnceAscending(get_language_names)
    /\ "Auto Detect" \in Range(get_language_names)

(* C17: get_language_names() is every name of the registry once, in        *)
(* ascending order, "Auto Detect" among them; the list of the target       *)
(* combobox never holds "Auto Detect", at the start and after every key    *)
(* typed in it, and the list the source combobox is given by a search for  *)
(* the empty string is that of get_language_names(), "Auto Detect"         *)
(* included.                                                               *)
C17_Listings ==
    /\ [](/\ NamesListed
          /\ "Auto Detect" \notin Range(target_values)
          /\ Range(target_values) \subseteq Range(LanguageKeys))
    /\ [][on_source_lang_search("") =>
              /\ source_values' = get_language_names
              /\ "Auto Detect" \in Range(source_values')]_vars

(* "Auto Detect" was typed in the target combobox, and the source combobox *)
(* was emptied after a search that had shortened its list                  *)
C17_Witness ==
    /\ target_lang_var = "Auto Detect"
    /\ target_values = <<>>
    /\ source_lang_var = ""
    /\ source_values = get_language_names

(* C19: the canary call of the availability thread and the backend call of *)
(* a translation thread are never in progress at the same time.            *)
C19_HandleNeverShared ==
    ~(probe.pc = "backend" /\ \E r \in Requests : workers[r].pc = "backend")

(* C20: the translate button is enabled exactly when the input, stripped,  *)
(* is not empty and is_translating is false, in every state of the window  *)
(* from the first one on.                                                  *)
C20_ButtonFollowsInput ==
    translate_button.state = "normal" <=>
        (TextLen(Strip(TkGet(input_text))) > 0 /\ ~is_translating)

-----------------------------------------------------------------------------
(* What the handlers leave in the two text areas *)

(* C21: when translation_complete runs for a request that succeeded, the   *)
(* output area then holds the translated text of that request and the      *)
(* copy, clear and save buttons are enabled, whatever the translated text, *)
(* the empty one included; when it runs with an error, the output area and *)
(* its buttons are as they were and the error message is shown.            *)
C21_CompletionShowsResult ==
    [][translation_complete =>
          LET call == Head(after_queue)
          IN  IF call.error = None
              THEN /\ call.translated_text # None
                   /\ output_text' = call.translated_text[1]
                   /\ output_buttons' = AllNormal
              ELSE /\ UNCHANGED <<output_text, output_buttons>>
                   /\ ShownError(call.error) = call.error]_vars

(* C22: swap_languages leaves the languages and both texts as they are     *)
(* when the source is "Auto Detect"; otherwise it exchanges the two        *)
(* languages, the input area gets the text the output area had and the     *)
(* output area gets the text the input area had, surrounding whitespace    *)
(* apart.                                                                  *)
C22_SwapExchangesTexts ==
    [][swap_languages =>
          IF source_lang_var = "Auto Detect"
          THEN UNCHANGED <<source_lang_var, target_lang_var, input_text, output_text>>
          ELSE /\ source_lang_var' = target_lang_var
               /\ target_lang_var' = source_lang_var
               /\ Strip(TkGet(input_text')) = Strip(TkGet(output_text))
               /\ Strip(TkGet(output_text')) = Strip(TkGet(input_text))]_vars


=============================================================================
